---- MODULE Spec2Model ----
(***************************************************************************)
(* Boot-time construction of the PSCI power-domain topology                *)
(* (services/std_svc/psci/psci_setup.c): populate_power_domain_tree,       *)
(* psci_update_pwrlvl_limits and psci_setup, run by the primary CPU.       *)
(*                                                                         *)
(* Conventions                                                             *)
(*  - an index held in an unsigned variable is an integer here; -1 stands  *)
(*    for 0xFFFFFFFF, which is what (unsigned)-1 is;                       *)
(*  - a word used as a bit mask (psci_caps, mpidr) is the set of its set   *)
(*    bit positions, so | is \cup and & is \cap;                           *)
(*  - assert() is compiled in: a failed assertion ends the run;            *)
(*  - an access outside psci_non_cpu_pd_nodes[] or psci_cpu_pd_nodes[] is  *)
(*    undefined behaviour: the run either takes a fault there, or goes on  *)
(*    with the store landing outside the two arrays and the load returning *)
(*    any value.                                                           *)
(***************************************************************************)
EXTENDS Integers, Sequences, FiniteSets

\* ------------------------------------------------------------------ bounds
MaxCores == 3
MaxLvl == 2
MaxNonCpu == 3
MaxChild == 3

VARIABLES
    PLATFORM_CORE_COUNT,    \* platform build constant
    PLAT_MAX_PWR_LVL,       \* platform build constant
    PSCI_NUM_PWR_DOMAINS,   \* platform build constant
    USE_COHERENT_MEM,       \* build option
    plat_array,             \* what platform_get_power_domain_tree_desc() returns
    plat_pm_tables,         \* the hook tables platform_setup_pm() may install
    psci_non_cpu_pd_nodes,
    psci_cpu_pd_nodes,
    psci_svc_cpu_data,      \* per-cpu data: psci_state, power_state
    cm_context,             \* cpu indices with a non-secure context installed
    dirty_non_cpu,          \* entries written and not flushed since
    dirty_cpu,
    dirty_cpu_data,
    psci_plat_pm_ops,
    psci_caps,
    pc,                     \* position in psci_setup
    pop,                    \* locals of populate_power_domain_tree
    lim,                    \* locals of psci_update_pwrlvl_limits
    my_core,                \* platform_my_core_pos() of the primary CPU
    init_calls,             \* calls of psci_init_pwr_domain_node so far
    ret                     \* <<v>> once psci_setup has returned v

vars == <<PLATFORM_CORE_COUNT, PLAT_MAX_PWR_LVL, PSCI_NUM_PWR_DOMAINS,
          USE_COHERENT_MEM, plat_array, plat_pm_tables, psci_non_cpu_pd_nodes,
          psci_cpu_pd_nodes, psci_svc_cpu_data, cm_context, dirty_non_cpu,
          dirty_cpu, dirty_cpu_data, psci_plat_pm_ops, psci_caps, pc, pop,
          lim, my_core, init_calls, ret>>

platform == <<PLATFORM_CORE_COUNT, PLAT_MAX_PWR_LVL, PSCI_NUM_PWR_DOMAINS,
              USE_COHERENT_MEM, plat_array, plat_pm_tables>>

\* ------------------------------------------------------- words as bit sets
AllOnes == 0..63
Zero == {}
MPIDR_AFFINITY_MASK == (0..23) \cup (32..39)
\* Values read_mpidr() returns on the primary CPU: affinity fields plus the
\* RES1 bit 31, the U bit 30 and the MT bit 24.
MpidrValues == {{31}, {0, 8, 24, 30, 31, 32}}

PSCI_CPU_PWR_LVL == 0

\* define_psci_cap(x) is 1 << (x & 0x1f); a function id is given here by its
\* low five bits.
PSCI_VERSION == 0
PSCI_CPU_SUSPEND_AARCH64 == 1
PSCI_CPU_OFF == 2
PSCI_CPU_ON_AARCH64 == 3
PSCI_AFFINITY_INFO_AARCH64 == 4
PSCI_SYSTEM_OFF == 8
PSCI_SYSTEM_RESET == 9
PSCI_FEATURES == 10
define_psci_cap(x) == {x % 32}
PSCI_GENERIC_CAP ==
    define_psci_cap(PSCI_VERSION) \cup
    define_psci_cap(PSCI_AFFINITY_INFO_AARCH64) \cup
    define_psci_cap(PSCI_FEATURES)

Hooks == {"pwr_domain_on", "pwr_domain_on_finish", "pwr_domain_off",
          "pwr_domain_suspend", "pwr_domain_suspend_finish",
          "system_off", "system_reset"}
\* A pointer is the sequence of what it points to: empty when null.
NULL == <<>>
Ref(table) == <<table>>
Deref(ptr) == ptr[1]

\* ------------------------------------------------------------ node arrays
NonCpuCapacity == PSCI_NUM_PWR_DOMAINS - PLATFORM_CORE_COUNT
NonCpuIdx == 0..(NonCpuCapacity - 1)
CpuIdx == 0..(PLATFORM_CORE_COUNT - 1)
InNonCpu(idx) == idx \in NonCpuIdx
InCpu(idx) == idx \in CpuIdx

\* .bss: every field zero
ZeroNonCpuNode ==
    [level |-> 0, parent_node |-> 0, cpu_start_idx |-> 0, ncpus |-> 0,
     lock |-> "ZERO", state |-> "OFF"]
ZeroCpuNode == [parent_node |-> 0, mpidr |-> Zero]
ZeroCpuData == [psci_state |-> "ZERO", power_state |-> "ZERO"]

ZeroPop == [num_levels |-> 0, i |-> 0, j |-> 0, num_nodes_at_lvl |-> 0,
            num_nodes_at_next_lvl |-> 0, node_index |-> 0,
            parent_node_index |-> 0, num_children |-> 0]
ZeroLim == [cpu_idx |-> 0, nodes_idx |-> <<>>]

\* The state psci_setup is entered in on a platform: .bss zeroed.
InitOn(cores, slots, tables) ==
    /\ PLATFORM_CORE_COUNT \in cores
    /\ PLAT_MAX_PWR_LVL \in 1..MaxLvl
    /\ PSCI_NUM_PWR_DOMAINS \in {PLATFORM_CORE_COUNT + k : k \in slots}
    /\ USE_COHERENT_MEM \in BOOLEAN
    \* the builder reads plat_array[0 .. NonCpuCapacity] at most
    /\ plat_array \in [0..NonCpuCapacity -> 0..MaxChild]
    /\ plat_pm_tables = tables
    /\ psci_non_cpu_pd_nodes = [k \in NonCpuIdx |-> ZeroNonCpuNode]
    /\ psci_cpu_pd_nodes = [k \in CpuIdx |-> ZeroCpuNode]
    /\ psci_svc_cpu_data = [k \in CpuIdx |-> ZeroCpuData]
    /\ cm_context = {}
    /\ dirty_non_cpu = {}
    /\ dirty_cpu = {}
    /\ dirty_cpu_data = {}
    /\ psci_plat_pm_ops = NULL
    /\ psci_caps = Zero
    /\ pc = "start"
    /\ pop = ZeroPop
    /\ lim = ZeroLim
    /\ my_core = 0
    /\ init_calls = {}
    /\ ret = <<>>

\* Every topology within the bounds; a platform that provides every hook.
Init == InitOn(1..MaxCores, 1..MaxNonCpu, {Ref(Hooks)})

\* Every hook table; the topologies of a one-cpu platform with one slot for
\* non-leaf nodes.
InitPm == InitOn({1}, {1}, {Ref(table) : table \in SUBSET Hooks})

\* ------------------------------------------------ psci_init_pwr_domain_node
\* What the two set_cpu_data_by_index calls leave in the cpu's data
\* (InitialCpuDataOn: the cpu marked ON instead).
InitialCpuDataOn == [psci_state |-> "ON", power_state |-> "INVALID"]
InitialCpuData == [psci_state |-> "OFF", power_state |-> "INVALID"]

\* One call; array_idx outside the array is handled by the caller's action
\* (the store is undefined behaviour there).
psci_init_pwr_domain_node(array_idx, parent_idx, level) ==
    IF level > PSCI_CPU_PWR_LVL
    THEN /\ psci_non_cpu_pd_nodes' =
                IF InNonCpu(array_idx)
                THEN [psci_non_cpu_pd_nodes EXCEPT ![array_idx] =
                         [@ EXCEPT !.level = level,
                                   !.lock = "UNLOCKED",
                                   !.parent_node = parent_idx]]
                ELSE psci_non_cpu_pd_nodes
         /\ dirty_non_cpu' =
                IF InNonCpu(array_idx)
                THEN IF USE_COHERENT_MEM
                     THEN dirty_non_cpu \cup {array_idx}
                     ELSE dirty_non_cpu \ {array_idx}
                ELSE dirty_non_cpu
         /\ UNCHANGED <<psci_cpu_pd_nodes, psci_svc_cpu_data, cm_context,
                        dirty_cpu, dirty_cpu_data>>
    ELSE /\ psci_cpu_pd_nodes' =
                IF InCpu(array_idx)
                THEN [psci_cpu_pd_nodes EXCEPT ![array_idx] =
                         [parent_node |-> parent_idx, mpidr |-> AllOnes]]
                ELSE psci_cpu_pd_nodes
         /\ dirty_cpu' =
                IF InCpu(array_idx) THEN dirty_cpu \cup {array_idx}
                ELSE dirty_cpu
         /\ psci_svc_cpu_data' =
                IF InCpu(array_idx)
                THEN [psci_svc_cpu_data EXCEPT ![array_idx] =
                         InitialCpuData]
                ELSE psci_svc_cpu_data
         /\ dirty_cpu_data' = dirty_cpu_data \ {array_idx}
         /\ cm_context' =
                IF InCpu(array_idx) THEN cm_context \cup {array_idx}
                ELSE cm_context
         /\ UNCHANGED <<psci_non_cpu_pd_nodes, dirty_non_cpu>>

InArray(array_idx, level) ==
    IF level > PSCI_CPU_PWR_LVL THEN InNonCpu(array_idx) ELSE InCpu(array_idx)

\* ----------------------------------------------- populate_power_domain_tree
\* psci_setup up to the call: clear the hook table, fetch the description,
\* enter populate_power_domain_tree(topology_tree, PLAT_MAX_PWR_LVL).
SetupStart ==
    /\ pc = "start"
    /\ psci_plat_pm_ops' = NULL
    /\ pop' = [num_levels |-> PLAT_MAX_PWR_LVL, i |-> 0, j |-> 0,
               num_nodes_at_lvl |-> 1, num_nodes_at_next_lvl |-> 0,
               node_index |-> 0, parent_node_index |-> 0,
               num_children |-> 0]
    /\ pc' = "pop_while"
    /\ UNCHANGED <<platform, psci_non_cpu_pd_nodes, psci_cpu_pd_nodes,
                   psci_svc_cpu_data, cm_context, dirty_non_cpu, dirty_cpu,
                   dirty_cpu_data, psci_caps, lim, my_core, init_calls, ret>>

\* while (num_levels >= 0) { num_nodes_at_next_lvl = 0; for (i = 0; ...
PopWhile ==
    /\ pc = "pop_while"
    /\ IF pop.num_levels >= 0
       THEN /\ pop' = [pop EXCEPT !.num_nodes_at_next_lvl = 0, !.i = 0]
            /\ pc' = "pop_for"
       ELSE /\ pop' = pop
            /\ pc' = "pop_assert"
    /\ UNCHANGED <<platform, psci_non_cpu_pd_nodes, psci_cpu_pd_nodes,
                   psci_svc_cpu_data, cm_context, dirty_non_cpu, dirty_cpu,
                   dirty_cpu_data, psci_plat_pm_ops, psci_caps, lim, my_core,
                   init_calls, ret>>

\* The for loop's test; in the body the assertion, the read of the child
\* count and the inner loop's initialisation; after the loop the level's
\* epilogue.
PopFor ==
    /\ pc = "pop_for"
    /\ IF pop.i < pop.num_nodes_at_lvl
       THEN IF pop.parent_node_index <= NonCpuCapacity
            THEN /\ pop' = [pop EXCEPT
                               !.num_children = plat_array[pop.parent_node_index],
                               !.j = pop.node_index]
                 /\ pc' = "pop_inner"
            ELSE /\ pop' = pop
                 /\ pc' = "abort_tree"
       ELSE /\ pop' = [pop EXCEPT
                          !.num_nodes_at_lvl = pop.num_nodes_at_next_lvl,
                          !.num_levels = pop.num_levels - 1,
                          !.node_index =
                              IF pop.num_levels - 1 = 0 THEN 0
                              ELSE pop.node_index]
            /\ pc' = "pop_while"
    /\ UNCHANGED <<platform, psci_non_cpu_pd_nodes, psci_cpu_pd_nodes,
                   psci_svc_cpu_data, cm_context, dirty_non_cpu, dirty_cpu,
                   dirty_cpu_data, psci_plat_pm_ops, psci_caps, lim, my_core,
                   init_calls, ret>>

\* The parent index handed to psci_init_pwr_domain_node: the description's
\* entry k + 1 belongs to node k, entry 0 to no node (-1)
\* (ParentArgNoOffset: the - 1 forgotten).
ParentArgNoOffset(parent_node_index) == parent_node_index
ParentArg(parent_node_index) == parent_node_index - 1

\* for (j = node_index; j < node_index + num_children; j++)
\*     psci_init_pwr_domain_node(j, parent_node_index - 1, num_levels);
\* and, after the loop, the rest of the outer body.
PopInner ==
    /\ pc = "pop_inner"
    /\ IF pop.j < pop.node_index + pop.num_children
       THEN /\ psci_init_pwr_domain_node(pop.j,
                                         ParentArg(pop.parent_node_index),
                                         pop.num_levels)
            /\ init_calls' = init_calls \cup
                   {<<pop.num_levels, pop.j, ParentArg(pop.parent_node_index)>>}
            /\ pop' = [pop EXCEPT !.j = pop.j + 1]
            /\ pc' = "pop_inner"
       ELSE /\ pop' = [pop EXCEPT
                          !.node_index = pop.j,
                          !.num_nodes_at_next_lvl =
                              pop.num_nodes_at_next_lvl + pop.num_children,
                          !.parent_node_index = pop.parent_node_index + 1,
                          !.i = pop.i + 1]
            /\ pc' = "pop_for"
            /\ UNCHANGED <<psci_non_cpu_pd_nodes, psci_cpu_pd_nodes,
                           psci_svc_cpu_data, cm_context, dirty_non_cpu,
                           dirty_cpu, dirty_cpu_data, init_calls>>
    /\ UNCHANGED <<platform, psci_plat_pm_ops, psci_caps, lim, my_core, ret>>

\* The store of an out-of-array slot may fault instead.
PopInitFault ==
    /\ pc = "pop_inner"
    /\ pop.j < pop.node_index + pop.num_children
    /\ ~InArray(pop.j, pop.num_levels)
    /\ init_calls' = init_calls \cup
           {<<pop.num_levels, pop.j, ParentArg(pop.parent_node_index)>>}
    /\ pc' = "fault_pop"
    /\ UNCHANGED <<platform, psci_non_cpu_pd_nodes, psci_cpu_pd_nodes,
                   psci_svc_cpu_data, cm_context, dirty_non_cpu, dirty_cpu,
                   dirty_cpu_data, psci_plat_pm_ops, psci_caps, pop, lim,
                   my_core, ret>>

\* assert(j == PLATFORM_CORE_COUNT); then psci_setup calls
\* psci_update_pwrlvl_limits(), whose nodes_idx[] starts as {0}.
PopAssert ==
    /\ pc = "pop_assert"
    /\ IF pop.j = PLATFORM_CORE_COUNT
       THEN /\ pc' = "limits"
            /\ lim' = [cpu_idx |-> 0,
                       nodes_idx |-> [k \in 1..PLAT_MAX_PWR_LVL |-> 0]]
       ELSE /\ pc' = "abort_tree"
            /\ lim' = lim
    /\ UNCHANGED <<platform, psci_non_cpu_pd_nodes, psci_cpu_pd_nodes,
                   psci_svc_cpu_data, cm_context, dirty_non_cpu, dirty_cpu,
                   dirty_cpu_data, psci_plat_pm_ops, psci_caps, pop, my_core,
                   init_calls, ret>>

\* ----------------------------------------- psci_get_parent_pwr_domain_nodes
\* The node indices the walk from parent_node stores in node_index[0..n-1]:
\*     *node_index++ = parent_node;
\*     parent_node = psci_non_cpu_pd_nodes[parent_node].parent_node;
\* A load with parent_node outside the array returns any value: -1 stands
\* for every out-of-array index, 0 for every in-array one.
RECURSIVE ParentChains(_, _, _)
ParentChains(nodes, parent_node, n) ==
    IF n = 0 THEN {<<>>}
    ELSE LET loaded == IF parent_node \in DOMAIN nodes
                       THEN {nodes[parent_node].parent_node}
                       ELSE {-1, 0}
         IN  UNION {{<<parent_node>> \o rest :
                         rest \in ParentChains(nodes, q, n - 1)} :
                    q \in loaded}

psci_get_parent_pwr_domain_nodes(cpu_idx, end_lvl) ==
    ParentChains(psci_non_cpu_pd_nodes,
                 psci_cpu_pd_nodes[cpu_idx].parent_node, end_lvl)

\* Some access of the walk, or of a store through its result, is outside
\* psci_non_cpu_pd_nodes[].
HasWild(chain) == \E k \in DOMAIN chain : ~InNonCpu(chain[k])

\* ------------------------------------------------ psci_update_pwrlvl_limits
\* The inner loop's body with the store of cpu_start_idx left out.
LimitsLevelNoStart(st, temp, cpu_idx, j) ==
    LET changed == temp[j] /= st.nodes_idx[j]
        nidx == IF changed THEN [st.nodes_idx EXCEPT ![j] = temp[j]]
                ELSE st.nodes_idx
        n2 == IF nidx[j] \in DOMAIN st.nodes
              THEN [st.nodes EXCEPT ![nidx[j]].ncpus = @ + 1]
              ELSE st.nodes
    IN  [nodes |-> n2, nodes_idx |-> nidx,
         written |-> st.written \cup ({nidx[j]} \cap DOMAIN n2)]

\* The inner loop's body with ncpus++ moved inside the if.
LimitsLevelCountOnChange(st, temp, cpu_idx, j) ==
    LET changed == temp[j] /= st.nodes_idx[j]
        nidx == IF changed THEN [st.nodes_idx EXCEPT ![j] = temp[j]]
                ELSE st.nodes_idx
        n2 == IF changed /\ nidx[j] \in DOMAIN st.nodes
              THEN [st.nodes EXCEPT ![nidx[j]].cpu_start_idx = cpu_idx,
                                    ![nidx[j]].ncpus = @ + 1]
              ELSE st.nodes
    IN  [nodes |-> n2, nodes_idx |-> nidx,
         written |-> st.written \cup ({nidx[j]} \cap DOMAIN n2)]

\* The body of the inner loop for one j (levels are 1-based here: temp_index[j]
\* of the code is temp[j + 1]); st is [nodes, nodes_idx, written].
LimitsLevel(st, temp, cpu_idx, j) ==
    LET changed == temp[j] /= st.nodes_idx[j]
        nidx == IF changed THEN [st.nodes_idx EXCEPT ![j] = temp[j]]
                ELSE st.nodes_idx
        n1 == IF changed /\ nidx[j] \in DOMAIN st.nodes
              THEN [st.nodes EXCEPT ![nidx[j]].cpu_start_idx = cpu_idx]
              ELSE st.nodes
        n2 == IF nidx[j] \in DOMAIN n1
              THEN [n1 EXCEPT ![nidx[j]].ncpus = @ + 1]
              ELSE n1
    IN  [nodes |-> n2, nodes_idx |-> nidx,
         written |-> st.written \cup ({nidx[j]} \cap DOMAIN n2)]

\* for (j = PLAT_MAX_PWR_LVL - 1; j >= 0; j--) ...
RECURSIVE LimitsLevels(_, _, _, _)
LimitsLevels(st, temp, cpu_idx, j) ==
    IF j = 0 THEN st
    ELSE LimitsLevels(LimitsLevel(st, temp, cpu_idx, j), temp, cpu_idx, j - 1)

\* One iteration of the loop over cpu_idx.
LimitsCpu(temp) ==
    LET st == LimitsLevels([nodes |-> psci_non_cpu_pd_nodes,
                            nodes_idx |-> lim.nodes_idx,
                            written |-> {}],
                           temp, lim.cpu_idx, PLAT_MAX_PWR_LVL)
    IN  /\ psci_non_cpu_pd_nodes' = st.nodes
        /\ dirty_non_cpu' = dirty_non_cpu \cup st.written
        /\ lim' = [cpu_idx |-> lim.cpu_idx + 1, nodes_idx |-> st.nodes_idx]

UpdateLimits ==
    /\ pc = "limits"
    /\ IF lim.cpu_idx < PLATFORM_CORE_COUNT
       THEN /\ \E temp \in psci_get_parent_pwr_domain_nodes(lim.cpu_idx,
                                                            PLAT_MAX_PWR_LVL) :
                   LimitsCpu(temp)
            /\ pc' = "limits"
       ELSE /\ pc' = "mpidr"
            /\ UNCHANGED <<psci_non_cpu_pd_nodes, dirty_non_cpu, lim>>
    /\ UNCHANGED <<platform, psci_cpu_pd_nodes, psci_svc_cpu_data, cm_context,
                   dirty_cpu, dirty_cpu_data, psci_plat_pm_ops, psci_caps, pop,
                   my_core, init_calls, ret>>

\* An out-of-array access of the pass may fault instead.
UpdateLimitsFault ==
    /\ pc = "limits"
    /\ lim.cpu_idx < PLATFORM_CORE_COUNT
    /\ \E temp \in psci_get_parent_pwr_domain_nodes(lim.cpu_idx,
                                                    PLAT_MAX_PWR_LVL) :
           HasWild(temp)
    /\ pc' = "fault_limits"
    /\ UNCHANGED <<platform, psci_non_cpu_pd_nodes, psci_cpu_pd_nodes,
                   psci_svc_cpu_data, cm_context, dirty_non_cpu, dirty_cpu,
                   dirty_cpu_data, psci_plat_pm_ops, psci_caps, pop, lim,
                   my_core, init_calls, ret>>

\* ------------------------------------------------------- psci_setup, the rest
\* psci_cpu_pd_nodes[platform_my_core_pos()].mpidr =
\*     read_mpidr() & MPIDR_AFFINITY_MASK;
StoreMpidr ==
    /\ pc = "mpidr"
    /\ \E core \in CpuIdx, mpidr \in MpidrValues :
           /\ my_core' = core
           /\ psci_cpu_pd_nodes' =
                  [psci_cpu_pd_nodes EXCEPT ![core].mpidr =
                       mpidr \cap MPIDR_AFFINITY_MASK]
           /\ dirty_cpu' = dirty_cpu \cup {core}
    /\ pc' = "flush"
    /\ UNCHANGED <<platform, psci_non_cpu_pd_nodes, psci_svc_cpu_data,
                   cm_context, dirty_non_cpu, dirty_cpu_data, psci_plat_pm_ops,
                   psci_caps, pop, lim, init_calls, ret>>

\* The flushes with the #if inverted.
FlushArraysInverted ==
    /\ pc = "flush"
    /\ dirty_non_cpu' = IF USE_COHERENT_MEM THEN {} ELSE dirty_non_cpu
    /\ dirty_cpu' = {}
    /\ pc' = "coord"
    /\ UNCHANGED <<platform, psci_non_cpu_pd_nodes, psci_cpu_pd_nodes,
                   psci_svc_cpu_data, cm_context, dirty_cpu_data,
                   psci_plat_pm_ops, psci_caps, pop, lim, my_core, init_calls,
                   ret>>

\* The two flush_dcache_range calls, the first under #if !USE_COHERENT_MEM.
FlushArrays ==
    /\ pc = "flush"
    /\ dirty_non_cpu' = IF USE_COHERENT_MEM THEN dirty_non_cpu ELSE {}
    /\ dirty_cpu' = {}
    /\ pc' = "coord"
    /\ UNCHANGED <<platform, psci_non_cpu_pd_nodes, psci_cpu_pd_nodes,
                   psci_svc_cpu_data, cm_context, dirty_cpu_data,
                   psci_plat_pm_ops, psci_caps, pop, lim, my_core, init_calls,
                   ret>>

\* psci_do_state_coordination(end_pwrlvl, cpu_idx, state): the leaf cpu_idx
\* and the nodes of its parent chain up to end_pwrlvl take the state.
psci_do_state_coordination(end_pwrlvl, cpu_idx, state, chain) ==
    /\ psci_svc_cpu_data' =
           [psci_svc_cpu_data EXCEPT ![cpu_idx].psci_state = state]
    /\ dirty_cpu_data' = dirty_cpu_data \cup {cpu_idx}
    /\ psci_non_cpu_pd_nodes' =
           [k \in DOMAIN psci_non_cpu_pd_nodes |->
               IF \E l \in 1..end_pwrlvl : chain[l] = k
               THEN [psci_non_cpu_pd_nodes[k] EXCEPT !.state = state]
               ELSE psci_non_cpu_pd_nodes[k]]
    /\ dirty_non_cpu' =
           dirty_non_cpu \cup
           {k \in DOMAIN psci_non_cpu_pd_nodes :
                \E l \in 1..end_pwrlvl : chain[l] = k}

\* psci_do_state_coordination(PLAT_MAX_PWR_LVL, platform_my_core_pos(),
\*                            PSCI_STATE_ON);
MarkPrimaryOn ==
    /\ pc = "coord"
    /\ \E chain \in psci_get_parent_pwr_domain_nodes(my_core, PLAT_MAX_PWR_LVL) :
           psci_do_state_coordination(PLAT_MAX_PWR_LVL, my_core, "ON", chain)
    /\ pc' = "setup_pm"
    /\ UNCHANGED <<platform, psci_cpu_pd_nodes, cm_context, dirty_cpu,
                   psci_plat_pm_ops, psci_caps, pop, lim, my_core, init_calls,
                   ret>>

MarkPrimaryOnFault ==
    /\ pc = "coord"
    /\ \E chain \in psci_get_parent_pwr_domain_nodes(my_core, PLAT_MAX_PWR_LVL) :
           HasWild(chain)
    /\ pc' = "fault_coord"
    /\ UNCHANGED <<platform, psci_non_cpu_pd_nodes, psci_cpu_pd_nodes,
                   psci_svc_cpu_data, cm_context, dirty_non_cpu, dirty_cpu,
                   dirty_cpu_data, psci_plat_pm_ops, psci_caps, pop, lim,
                   my_core, init_calls, ret>>

\* psci_caps initialised before the assertion instead of after it.
SetupPmCapsFirst ==
    /\ pc = "setup_pm"
    /\ \E ops \in {psci_plat_pm_ops} \cup plat_pm_tables :
           /\ psci_plat_pm_ops' = ops
           /\ pc' = IF ops /= NULL THEN "caps" ELSE "abort_pm"
    /\ psci_caps' = PSCI_GENERIC_CAP
    /\ UNCHANGED <<platform, psci_non_cpu_pd_nodes, psci_cpu_pd_nodes,
                   psci_svc_cpu_data, cm_context, dirty_non_cpu, dirty_cpu,
                   dirty_cpu_data, pop, lim, my_core, init_calls, ret>>

\* platform_setup_pm(&psci_plat_pm_ops); assert(psci_plat_pm_ops);
\* The platform leaves the reference as it is or stores a table, which is
\* the set of the hooks it provides.
SetupPm ==
    /\ pc = "setup_pm"
    /\ \E ops \in {psci_plat_pm_ops} \cup plat_pm_tables :
           /\ psci_plat_pm_ops' = ops
           /\ pc' = IF ops /= NULL THEN "caps" ELSE "abort_pm"
    /\ UNCHANGED <<platform, psci_non_cpu_pd_nodes, psci_cpu_pd_nodes,
                   psci_svc_cpu_data, cm_context, dirty_non_cpu, dirty_cpu,
                   dirty_cpu_data, psci_caps, pop, lim, my_core, init_calls,
                   ret>>

\* The derivation with || for && in the CPU_ON test.
DeriveCapsEitherOnHook(ops) ==
    PSCI_GENERIC_CAP
    \cup (IF "pwr_domain_off" \in ops
          THEN define_psci_cap(PSCI_CPU_OFF) ELSE {})
    \cup (IF "pwr_domain_on" \in ops \/ "pwr_domain_on_finish" \in ops
          THEN define_psci_cap(PSCI_CPU_ON_AARCH64) ELSE {})
    \cup (IF "pwr_domain_suspend" \in ops
             /\ "pwr_domain_suspend_finish" \in ops
          THEN define_psci_cap(PSCI_CPU_SUSPEND_AARCH64) ELSE {})
    \cup (IF "system_off" \in ops
          THEN define_psci_cap(PSCI_SYSTEM_OFF) ELSE {})
    \cup (IF "system_reset" \in ops
          THEN define_psci_cap(PSCI_SYSTEM_RESET) ELSE {})

\* The value psci_caps ends with for a hook table.
DeriveCaps(ops) ==
    PSCI_GENERIC_CAP
    \cup (IF "pwr_domain_off" \in ops
          THEN define_psci_cap(PSCI_CPU_OFF) ELSE {})
    \cup (IF "pwr_domain_on" \in ops /\ "pwr_domain_on_finish" \in ops
          THEN define_psci_cap(PSCI_CPU_ON_AARCH64) ELSE {})
    \cup (IF "pwr_domain_suspend" \in ops
             /\ "pwr_domain_suspend_finish" \in ops
          THEN define_psci_cap(PSCI_CPU_SUSPEND_AARCH64) ELSE {})
    \cup (IF "system_off" \in ops
          THEN define_psci_cap(PSCI_SYSTEM_OFF) ELSE {})
    \cup (IF "system_reset" \in ops
          THEN define_psci_cap(PSCI_SYSTEM_RESET) ELSE {})

\* psci_caps = PSCI_GENERIC_CAP; if (...) psci_caps |= ...; return 0;
InitCaps ==
    /\ pc = "caps"
    /\ psci_caps' = DeriveCaps(Deref(psci_plat_pm_ops))
    /\ ret' = <<0>>
    /\ pc' = "done"
    /\ UNCHANGED <<platform, psci_non_cpu_pd_nodes, psci_cpu_pd_nodes,
                   psci_svc_cpu_data, cm_context, dirty_non_cpu, dirty_cpu,
                   dirty_cpu_data, psci_plat_pm_ops, pop, lim, my_core,
                   init_calls>>

Next ==
    \/ SetupStart
    \/ PopWhile
    \/ PopFor
    \/ PopInner
    \/ PopInitFault
    \/ PopAssert
    \/ UpdateLimits
    \/ UpdateLimitsFault
    \/ StoreMpidr
    \/ FlushArrays
    \/ MarkPrimaryOn
    \/ MarkPrimaryOnFault
    \/ SetupPm
    \/ InitCaps

Spec == Init /\ [][Next]_vars
SpecPm == InitPm /\ [][Next]_vars

\* ------------------------------------------------------- derived notions
NonCpuCalls == {c \in init_calls : c[1] > PSCI_CPU_PWR_LVL}
CpuCalls == {c \in init_calls : c[1] = PSCI_CPU_PWR_LVL}
\* The slots the builder initialised
Populated == {c[2] : c \in NonCpuCalls}
Leaves == {c[2] : c \in CpuCalls}

\* populate_power_domain_tree has returned to psci_setup
PopReturned ==
    pc \in {"limits", "mpidr", "flush", "coord", "setup_pm", "caps", "done",
            "abort_pm", "fault_limits", "fault_coord"}
\* psci_update_pwrlvl_limits has returned to psci_setup
LimitsReturned ==
    pc \in {"mpidr", "flush", "coord", "setup_pm", "caps", "done", "abort_pm",
            "fault_coord"}
\* The leaf counts of the description sum to PLATFORM_CORE_COUNT
AllLeavesPopulated == Cardinality(CpuCalls) = PLATFORM_CORE_COUNT

Level(n) == psci_non_cpu_pd_nodes[n].level
Parent(n) == psci_non_cpu_pd_nodes[n].parent_node
Start(n) == psci_non_cpu_pd_nodes[n].cpu_start_idx
Ncpus(n) == psci_non_cpu_pd_nodes[n].ncpus

\* The nodes on the parent chain that starts at node n, at most d of them
RECURSIVE ChainFrom(_, _)
ChainFrom(n, d) ==
    IF d = 0 \/ ~InNonCpu(n) THEN {}
    ELSE {n} \cup ChainFrom(Parent(n), d - 1)
Ancestors(cpu) ==
    ChainFrom(psci_cpu_pd_nodes[cpu].parent_node, PLAT_MAX_PWR_LVL)
Covered(n) == {cpu \in Leaves \cap CpuIdx : n \in Ancestors(cpu)}

NodeChildren(n) == {m \in Populated : Parent(m) = n}
LeafChildren(n) ==
    {cpu \in Leaves \cap CpuIdx : psci_cpu_pd_nodes[cpu].parent_node = n}
Consecutive(S) == \A a \in S, b \in S : \A x \in a..b : x \in S

RECURSIVE SumNcpus(_)
SumNcpus(S) ==
    IF S = {} THEN 0
    ELSE LET m == CHOOSE x \in S : TRUE IN Ncpus(m) + SumNcpus(S \ {m})

\* ------------------------------------------------------------------ claims

\* C1: populate_power_domain_tree returns without aborting only if the number
\* of psci_init_pwr_domain_node calls at level 0 equals PLATFORM_CORE_COUNT.
C1_ReturnsOnlyWithAllLeaves == PopReturned => AllLeavesPopulated

\* C10: every index populate_power_domain_tree passes to
\* psci_init_pwr_domain_node is inside the array of its level, in every run,
\* also one an assertion ends later.
C10_NoSlotOutsideArrays == \A c \in init_calls : InArray(c[2], c[1])

\* C4: once populate_power_domain_tree has returned the parent links are the
\* level-ordered forest of the description: the first pass's nodes are roots
\* of level PLAT_MAX_PWR_LVL with parent -1, every other non-leaf node of
\* level l has a parent of level l + 1, every leaf has a parent of level 1,
\* and the children of node k are plat_array[k + 1] consecutive slots, in
\* parent order.
C4_ParentLinksFormForest ==
    PopReturned =>
        /\ Populated \subseteq NonCpuIdx
        /\ Leaves \subseteq CpuIdx
        /\ \A n \in Populated :
               IF n < plat_array[0]
               THEN Level(n) = PLAT_MAX_PWR_LVL /\ Parent(n) = -1
               ELSE /\ Level(n) \in 1..(PLAT_MAX_PWR_LVL - 1)
                    /\ Parent(n) \in Populated
                    /\ Level(Parent(n)) = Level(n) + 1
        /\ 0..(plat_array[0] - 1) \subseteq Populated
        /\ \A cpu \in Leaves :
               /\ psci_cpu_pd_nodes[cpu].parent_node \in Populated
               /\ Level(psci_cpu_pd_nodes[cpu].parent_node) = 1
        /\ \A k \in Populated :
               LET kids == IF Level(k) > 1 THEN NodeChildren(k)
                           ELSE LeafChildren(k)
               IN  /\ Cardinality(kids) = plat_array[k + 1]
                   /\ Consecutive(kids)
                   /\ Level(k) = 1 => NodeChildren(k) = {}
                   /\ Level(k) > 1 => LeafChildren(k) = {}
        /\ \A k1 \in Populated, k2 \in Populated :
               (k1 < k2 /\ Level(k1) = Level(k2)) =>
                   /\ \A a \in NodeChildren(k1), b \in NodeChildren(k2) : a < b
                   /\ \A a \in LeafChildren(k1), b \in LeafChildren(k2) : a < b

\* C4's case: two level-1 nodes under one root, the second with two leaves.
C4_Witness ==
    /\ PopReturned
    /\ PLAT_MAX_PWR_LVL = 2
    /\ \E k1 \in Populated, k2 \in Populated :
           /\ k1 < k2
           /\ Parent(k1) = 0 /\ Parent(k2) = 0
           /\ LeafChildren(k1) /= {}
           /\ Cardinality(LeafChildren(k2)) = 2

\* C2: after the build and the range pass on a description whose leaf counts
\* sum to PLATFORM_CORE_COUNT, every populated non-leaf node's ncpus is the
\* number of leaves whose parent chain passes through it, which is the sum
\* over its direct children (a leaf counting 1), and those leaves are exactly
\* cpu_start_idx .. cpu_start_idx + ncpus - 1.
C2_RangeIsCoveredLeaves ==
    (LimitsReturned /\ AllLeavesPopulated) =>
        \A n \in Populated :
            /\ Ncpus(n) = Cardinality(Covered(n))
            /\ Covered(n) = Start(n)..(Start(n) + Ncpus(n) - 1)
            /\ Ncpus(n) = IF Level(n) > 1 THEN SumNcpus(NodeChildren(n))
                          ELSE Cardinality(LeafChildren(n))

\* C2's case: a node whose range does not start at cpu 0, below a root that
\* covers more than that node.
C2_Witness ==
    /\ LimitsReturned
    /\ AllLeavesPopulated
    /\ PLAT_MAX_PWR_LVL = 2
    /\ \E n \in Populated :
           /\ Start(n) > 0
           /\ Ncpus(n) > 0
           /\ Parent(n) \in Populated
           /\ Ncpus(Parent(n)) > Ncpus(n)

\* The siblings under parent p (-1: the roots), and the range they share
Siblings(p) == {n \in Populated : Parent(n) = p}
RangeStart(p) == IF p = -1 THEN 0 ELSE Start(p)
RangeEnd(p) == IF p = -1 THEN PLATFORM_CORE_COUNT ELSE Start(p) + Ncpus(p)
Max(S) == CHOOSE x \in S : \A y \in S : y <= x
\* The nodes of S tile the range of p in index order
Tiles(S, p) ==
    /\ \A n \in S :
           LET before == {m \in S : m < n}
           IN  Start(n) = IF before = {} THEN RangeStart(p)
                          ELSE Start(Max(before)) + Ncpus(Max(before))
    /\ S /= {} => Start(Max(S)) + Ncpus(Max(S)) = RangeEnd(p)

\* C3 as stated: after the build and the range pass on a description the
\* builder accepts, the siblings under every parent (and the roots) tile the
\* parent's cpu range in index order, a sibling that covers no cpu included.
C3_AllSiblingsTile ==
    LimitsReturned =>
        \A p \in Populated \cup {-1} : Tiles(Siblings(p), p)

\* C3 amended: on a description the builder accepts and whose leaf counts
\* sum to PLATFORM_CORE_COUNT, the siblings that cover at least one cpu tile
\* the parent's cpu range in index order (so they are pairwise disjoint); a
\* sibling that covers no cpu keeps cpu_start_idx 0 and ncpus 0.
C3_NonEmptySiblingsTile ==
    (LimitsReturned /\ AllLeavesPopulated) =>
        /\ \A p \in Populated \cup {-1} :
               /\ Tiles({n \in Siblings(p) : Ncpus(n) > 0}, p)
               /\ \A n \in Siblings(p), m \in Siblings(p) :
                      n /= m =>
                          (Start(n)..(Start(n) + Ncpus(n) - 1)) \cap
                          (Start(m)..(Start(m) + Ncpus(m) - 1)) = {}
               /\ (RangeEnd(p) > RangeStart(p) /\ (p = -1 \/ Level(p) > 1)) =>
                      \E n \in Siblings(p) : Ncpus(n) > 0
        /\ \A n \in Populated : Ncpus(n) = 0 => Start(n) = 0

\* C3's case: a parent with a sibling that covers no cpu between two that
\* each cover one.
C3_Witness ==
    /\ LimitsReturned
    /\ AllLeavesPopulated
    /\ \E p \in Populated \cup {-1} :
           \E n \in Siblings(p), e \in Siblings(p), m \in Siblings(p) :
               n < e /\ e < m /\ Ncpus(n) > 0 /\ Ncpus(e) = 0 /\ Ncpus(m) > 0

\* C5: when psci_setup returns on a well-formed topology, the leaf at
\* platform_my_core_pos() and every node of its parent chain up to its root
\* are ON, and every other leaf is OFF as the builder left it.
C5_PrimaryPathOn ==
    (pc = "done" /\ AllLeavesPopulated) =>
        /\ psci_svc_cpu_data[my_core].psci_state = "ON"
        /\ Cardinality(Ancestors(my_core)) = PLAT_MAX_PWR_LVL
        /\ \A n \in Ancestors(my_core) :
               psci_non_cpu_pd_nodes[n].state = "ON"
        /\ \E r \in Ancestors(my_core) : Parent(r) = -1
        /\ \A cpu \in CpuIdx :
               cpu /= my_core => psci_svc_cpu_data[cpu].psci_state = "OFF"

\* C5's case: the primary CPU is not cpu 0, other leaves exist, two levels.
C5_Witness ==
    /\ pc = "done"
    /\ AllLeavesPopulated
    /\ PLATFORM_CORE_COUNT >= 2
    /\ my_core > 0
    /\ PLAT_MAX_PWR_LVL = 2
    /\ \E n \in Populated : n \notin Ancestors(my_core)

Has(hook) == hook \in Deref(psci_plat_pm_ops)

\* C6: when psci_setup returns, psci_caps is PSCI_GENERIC_CAP plus the CPU_OFF
\* bit iff pwr_domain_off is present, the CPU_ON bit iff pwr_domain_on and
\* pwr_domain_on_finish are, the CPU_SUSPEND bit iff pwr_domain_suspend and
\* pwr_domain_suspend_finish are, the SYSTEM_OFF bit iff system_off is, the
\* SYSTEM_RESET bit iff system_reset is, and no other bit.
C6_CapsFollowHooks ==
    pc = "done" =>
        \A bit \in 0..31 :
            bit \in psci_caps <=>
                \/ bit \in {PSCI_VERSION, PSCI_AFFINITY_INFO_AARCH64,
                            PSCI_FEATURES}
                \/ bit = PSCI_CPU_OFF /\ Has("pwr_domain_off")
                \/ bit = PSCI_CPU_ON_AARCH64
                   /\ Has("pwr_domain_on") /\ Has("pwr_domain_on_finish")
                \/ bit = PSCI_CPU_SUSPEND_AARCH64
                   /\ Has("pwr_domain_suspend")
                   /\ Has("pwr_domain_suspend_finish")
                \/ bit = PSCI_SYSTEM_OFF /\ Has("system_off")
                \/ bit = PSCI_SYSTEM_RESET /\ Has("system_reset")

\* C6's case: one pair half present, the other pair whole.
C6_Witness ==
    /\ pc = "done"
    /\ Has("pwr_domain_on") /\ ~Has("pwr_domain_on_finish")
    /\ Has("pwr_domain_suspend") /\ Has("pwr_domain_suspend_finish")
    /\ ~Has("system_off") /\ Has("system_reset")

Aborted == pc \in {"abort_tree", "abort_pm"}

\* C7: the hook table reference is null from psci_setup's first statement
\* until platform_setup_pm; psci_setup goes on past the assertion exactly
\* when the reference is then non-null; on an abort (hook table or topology)
\* psci_caps was never assigned and 0 never returned; a table with no hook
\* at all gives a return of 0 with PSCI_GENERIC_CAP alone.
C7_AbortsOnlyOnNullTable ==
    /\ pc \in {"pop_while", "pop_for", "pop_inner", "pop_assert", "limits",
               "mpidr", "flush", "coord", "setup_pm", "abort_tree"}
           => psci_plat_pm_ops = NULL
    /\ pc = "abort_pm" => psci_plat_pm_ops = NULL
    /\ pc \in {"caps", "done"} => psci_plat_pm_ops /= NULL
    /\ Aborted => (psci_caps = Zero /\ ret = <<>>)
    /\ ret = <<0>> <=> pc = "done"
    /\ (pc = "done" /\ Deref(psci_plat_pm_ops) = {}) =>
           psci_caps = PSCI_GENERIC_CAP

\* C7's case: the platform left the reference null and the run aborted.
C7_Witness ==
    /\ pc = "abort_pm"
    /\ psci_plat_pm_ops = NULL
    /\ AllLeavesPopulated

\* C8: when psci_setup returns, the leaf at platform_my_core_pos() holds
\* read_mpidr() & MPIDR_AFFINITY_MASK and every other leaf holds the invalid
\* sentinel -1.
C8_OnlyPrimaryHasAffinity ==
    pc = "done" =>
        /\ psci_cpu_pd_nodes[my_core].mpidr \in
               {m \cap MPIDR_AFFINITY_MASK : m \in MpidrValues}
        /\ \A cpu \in CpuIdx :
               cpu /= my_core => psci_cpu_pd_nodes[cpu].mpidr = AllOnes

\* C9: without coherent memory, when psci_setup is about to mark the primary
\* CPU's path ON no entry of psci_non_cpu_pd_nodes or psci_cpu_pd_nodes is
\* written and not flushed.
C9_FlushedBeforeMarking ==
    (~USE_COHERENT_MEM /\ pc = "coord") =>
        (dirty_non_cpu = {} /\ dirty_cpu = {})

\* C9's case: the builder, the range pass and the affinity store all wrote.
C9_Witness ==
    /\ ~USE_COHERENT_MEM
    /\ pc = "coord"
    /\ AllLeavesPopulated
    /\ \E n \in Populated : Ncpus(n) > 0
    /\ psci_cpu_pd_nodes[my_core].mpidr /= AllOnes
====
